---------------------------- MODULE Spec2Model ----------------------------
(***************************************************************************)
(* Model of teamspeak-channel-squatter: the Bot session (handshake, move   *)
(* and enter-view listeners, keep-alive) running against the query         *)
(* transport, which is represented by the log of requests sent and the     *)
(* reply each request has received so far.                                 *)
(***************************************************************************)
EXTENDS Integers, Sequences, FiniteSets

VARIABLES
    allowedGroupIds, \* Bot._allowedGroupIds: array of JS values
    whoami,          \* Bot.whoami: Null or the whoami response
    listening,       \* listeners attached to the transport client
    hs,              \* position of the _connect chain: 0 idle, k awaiting reply k, 7 past the chain
    startResult,     \* outcome of the promise returned by start()
    keepAlive,       \* the setInterval timer exists
    sent,            \* every request of the handshake, the listeners and the handlers, in order
    replies,         \* the reply each of these requests has received
    pings,           \* the reply each keep-alive query has received, in the order sent
    event,           \* the event the transport delivered last
    nevents,         \* number of events delivered
    calls,           \* every action-handler invocation, in order
    logged,          \* console.error lines
    unhandled,       \* requests whose rejection no handler observed
    crashed,         \* an exception escaped a listener
    whoamiWrites,    \* number of assignments to Bot.whoami after the constructor
    factory,         \* the five slices of the Factory
    session,         \* the Bot that build() returned last
    outcome,         \* the last call of the Factory or of joinChannel by user code
    ncalls           \* number of such calls

\* what the Factory and direct calls of user code touch
api == <<factory, session, outcome, ncalls>>

vars == <<allowedGroupIds, whoami, listening, hs, startResult, keepAlive,
          sent, replies, pings, event, nevents, calls, logged, unhandled, crashed,
          whoamiWrites, factory, session, outcome, ncalls>>

----------------------------------------------------------------------------
(* Bounds *)

\* calls made on one Factory
MaxCalls == 6

\* calls of joinChannel made by user code
MaxJoins == 2

\* client ids 1..MaxClient: the bot and the other clients
MaxClient == 3
\* events the transport delivers
MaxEvents == 2
\* keep-alive ticks
MaxTicks == 1
\* length of sent: the handshake, one query and one handler run
MaxSent == 10

(* Configuration of the example script *)

ChannelId == 1173
KickReasonId == 4

ClientIds == 1..MaxClient

\* the client id the server gives the query connection
OwnClientIds == {1}
Channels == {ChannelId, ChannelId + 1}

----------------------------------------------------------------------------
(* JS values: a number, a string (sequence of one-character strings) or    *)
(* undefined, tagged so that a number never equals a string, as under      *)
(* SameValueZero.                                                          *)

Undefined == [type |-> "undefined", num |-> 0, str |-> <<>>]
Num(n) == [type |-> "number", num |-> n, str |-> <<>>]
Str(s) == [type |-> "string", num |-> 0, str |-> s]

NoEvent == [kind |-> "none", ctid |-> 0, clid |-> 0]

\* Bot.whoami before the whoami response is stored, and a stored response
Null == [isNull |-> TRUE, client_id |-> 0]
WhoamiResponse(id) == [isNull |-> FALSE, client_id |-> id]

DigitChars == <<"0", "1", "2", "3", "4", "5", "6", "7", "8", "9">>

RECURSIVE DecimalString(_)
DecimalString(n) ==
    IF n < 10 THEN <<DigitChars[n + 1]>>
    ELSE DecimalString(n \div 10) \o <<DigitChars[(n % 10) + 1]>>

\* Number.prototype.toString / String.prototype.toString
toString(v) == IF v.type = "number" THEN DecimalString(v.num) ELSE v.str

\* String.prototype.split(','): the pieces between commas, as JS strings
RECURSIVE Split(_)
Split(s) ==
    IF \A i \in 1..Len(s) : s[i] # ","
    THEN <<Str(s)>>
    ELSE LET k == CHOOSE i \in 1..Len(s) :
                      s[i] = "," /\ \A j \in 1..(i - 1) : s[j] # ","
         IN <<Str(SubSeq(s, 1, k - 1))>> \o Split(SubSeq(s, k + 1, Len(s)))

\* lodash intersection of two arrays: the elements of a that b contains
\* under SameValueZero
Intersection(a, b) ==
    SelectSeq(a, LAMBDA x : \E j \in 1..Len(b) : b[j] = x)

\* variant: the empty allowed list is not treated as "allow all"
HasPermissionResult_NoSentinel(allowed, response) ==
    LET groupIds == Split(toString(response.client_servergroups))
    IN Len(Intersection(allowed, groupIds)) > 0

\* the .then callback of _hasPermission
HasPermissionResult(allowed, response) ==
    LET groupIds == Split(toString(response.client_servergroups))
    IN Len(allowed) = 0 \/ Len(Intersection(allowed, groupIds)) > 0

----------------------------------------------------------------------------
(* Inputs *)

\* arrays accepted by Factory.withAllowedGroups: positive integers only
AllowedGroupChoices == {<<>>, <<Num(5), Num(7)>>}

\* client_servergroups as the transport parses it: a lone group is a
\* number, several groups are a comma separated string
ServerGroupChoices ==
    {Num(7), Str(<<"3", ",", "7">>), Str(<<"3", ",", "9">>), Str(<<>>)}

----------------------------------------------------------------------------
(* Requests *)

\* a call of _send; cause is the index in sent of the clientinfo query whose
\* dispatch made the call, 0 for any other call
Request(cmd, params, origin, cause) ==
    [cmd |-> cmd, params |-> params, origin |-> origin, cause |-> cause]

Pending == [status |-> "pending", client_id |-> 0, client_servergroups |-> Undefined]
OkReply == [status |-> "ok", client_id |-> 0, client_servergroups |-> Undefined]
ErrorReply == [status |-> "error", client_id |-> 0, client_servergroups |-> Undefined]

Send(log, req) == Append(log, req)

LoginRequest ==
    Request("login", [client_login_name |-> "serveradmin",
                      client_login_password |-> "password"], "handshake", 0)
UseServerRequest == Request("use", [port |-> 9989], "handshake", 0)
ChangeNameRequest == Request("clientupdate", [client_nickname |-> "TEST"], "handshake", 0)
WhoamiRequest(origin) == Request("whoami", <<>>, origin, 0)
NotifyForEventsRequest ==
    Request("servernotifyregister", [event |-> "channel", id |-> ChannelId], "handshake", 0)

\* joinChannel(cid, clid = whoami.client_id, password): the password field
\* exists only when a password was passed
JoinChannelPayload_Truthy(cid, clid, password) ==
    IF password.type # "undefined" /\ password.str # <<>>
    THEN [cid |-> Num(cid), clid |-> Num(clid), password |-> password]
    ELSE [cid |-> Num(cid), clid |-> Num(clid)]

JoinChannelPayload(cid, clid, password) ==
    IF password.type # "undefined"
    THEN [cid |-> Num(cid), clid |-> Num(clid), password |-> password]
    ELSE [cid |-> Num(cid), clid |-> Num(clid)]

JoinChannelRequest(cid, clid, password, origin) ==
    Request("clientmove", JoinChannelPayload(cid, clid, password), origin, 0)

SendPokeRequest(clid, msg, cause) ==
    Request("clientpoke", [clid |-> clid, msg |-> msg], "handler", cause)
SendMessageRequest(clid, msg, cause) ==
    Request("sendtextmessage", [target |-> clid, targetmode |-> 1, msg |-> msg], "handler", cause)
KickClientRequest(clid, msg, origin, cause) ==
    Request("clientkick", [clid |-> clid, reasonid |-> KickReasonId, reasonmsg |-> msg],
            origin, cause)

ClientInfoRequest(clid) ==
    Request("clientinfo", [clid |-> clid], "move", 0)

\* variant: the events are registered before the identity is asked for
ConnectOrder_RegisterBeforeWhoami ==
    <<"login", "use", "clientupdate", "servernotifyregister", "whoami", "clientmove">>

\* variant: the channel is joined before the identity is asked for
ConnectOrder_JoinBeforeWhoami ==
    <<"login", "use", "clientupdate", "clientmove", "whoami", "servernotifyregister">>

\* variant: the events are registered before the channel is joined
ConnectOrder_RegisterBeforeJoin ==
    <<"login", "use", "clientupdate", "whoami", "servernotifyregister", "clientmove">>

\* the chain of _connect: the command each step sends
ConnectOrder ==
    <<"login", "use", "clientupdate", "whoami", "clientmove", "servernotifyregister">>

HandshakeLength == Len(ConnectOrder)

\* joinChannel's default argument reads whoami.client_id, which throws
\* while whoami is null
StepThrows(k, me) == ConnectOrder[k] = "clientmove" /\ me.isNull

ConnectStep(k, me) ==
    CASE ConnectOrder[k] = "login" -> LoginRequest
      [] ConnectOrder[k] = "use" -> UseServerRequest
      [] ConnectOrder[k] = "clientupdate" -> ChangeNameRequest
      [] ConnectOrder[k] = "whoami" -> WhoamiRequest("handshake")
      [] ConnectOrder[k] = "clientmove" ->
            JoinChannelRequest(ChannelId, me.client_id, Undefined, "handshake")
      [] ConnectOrder[k] = "servernotifyregister" -> NotifyForEventsRequest

\* index in sent of the request the handshake is waiting for
HandshakeIndex ==
    CHOOSE i \in 1..Len(sent) :
        /\ sent[i].origin = "handshake"
        /\ \A j \in (i + 1)..Len(sent) : sent[j].origin # "handshake"

\* the server delivers channel notifications once servernotifyregister
\* has been acknowledged
Subscribed ==
    \E i \in 1..Len(sent) :
        sent[i].cmd = "servernotifyregister" /\ replies[i].status = "ok"

\* the example handlers: poke, message and kick, none of the three
\* promises observed
ActionRequests(name, clid, cause) ==
    IF name = "success"
    THEN <<SendPokeRequest(clid, "test success poke", cause),
           SendMessageRequest(clid, "success", cause),
           KickClientRequest(clid, "success", "handler", cause)>>
    ELSE <<SendPokeRequest(clid, "test no perms poke", cause),
           SendMessageRequest(clid, "no perms", cause),
           KickClientRequest(clid, "no perms", "handler", cause)>>

\* the checks of the two listeners
MovedIntoChannel(moveEvent) == moveEvent.ctid = ChannelId

\* variant: the client id is compared with the whoami response itself
IsOurselves_Never(clientId, me) == FALSE

IsOurselves(clientId, me) == clientId = me.client_id

\* variant: the channel of the event is not looked at
EnteredChannel_Always(viewEvent) == TRUE

EnteredChannel(viewEvent) == viewEvent.ctid = ChannelId

\* variant: the two keys are exchanged
HandlerName_Swapped(allowed) == IF allowed THEN "noPerms" ELSE "success"

\* the key of _actions that _onClientMove picks
HandlerName(allowed) == IF allowed THEN "success" ELSE "noPerms"

\* a handler is user code: it runs the example body or throws
HandlerBehaviours == {"example", "throws"}

PendingFor(reqs) == [i \in 1..Len(reqs) |-> Pending]

----------------------------------------------------------------------------
(* Factory *)

\* a slice that no setter has stored yet
Unset == [set |-> FALSE, value |-> <<>>]
Stored(v) == [set |-> TRUE, value |-> v]

\* a new Factory: no field assigned
EmptyFactory ==
    [credentials |-> Unset, actions |-> Unset, connectionInfo |-> Unset,
     channelId |-> Unset, allowedGroupIds |-> Unset]

\* no Bot constructed yet
NoSession == [built |-> FALSE]

\* no call made yet; otherwise the call, its arguments, and the message of the
\* Error it threw ("" when it returned)
NoCall == [call |-> "none", args |-> <<>>, ok |-> TRUE, error |-> ""]
Call(name, args, error) == [call |-> name, args |-> args, ok |-> error = "", error |-> error]

\* a function value and an array value
Fn(name) == [type |-> "function", num |-> 0, str |-> <<name>>]
Arr(items) == [type |-> "array", items |-> items]

\* lodash isEmpty on a string, a number, a function or undefined: only a
\* string with characters is not empty
isEmpty(it) == IF it.type = "string" THEN Len(it.str) = 0 ELSE TRUE

\* lodash isInteger: every number of the model is an integer
isInteger(it) == it.type = "number"

isFunction(it) == it.type = "function"

\* the validators give the message of the Error they throw, "" when they return
validateString(it, message) == IF isEmpty(it) THEN message ELSE ""

validateFunction(it, message) == IF ~isFunction(it) THEN message ELSE ""

validatePositiveInteger_AnyInteger(it, message) ==
    IF ~isInteger(it) THEN message ELSE ""

validatePositiveInteger(it, message) ==
    IF ~isInteger(it) THEN message
    ELSE IF it.num <= 0 THEN message ELSE ""

\* statements run in order: the first Error thrown ends the call
RECURSIVE FirstError(_)
FirstError(errors) ==
    IF errors = <<>> THEN ""
    ELSE IF Head(errors) # "" THEN Head(errors)
    ELSE FirstError(Tail(errors))

\* groups.forEach(validatePositiveInteger)
ValidateGroups(groups) ==
    FirstError([k \in 1..Len(groups) |-> validatePositiveInteger(groups[k], "Invalid group ID")])

\* new Bot(credentials, connectionInfo, channelId, actions, allowedGroupIds)
NewBot(credentials, connectionInfo, channelId, actions, groupIds) ==
    [built |-> TRUE, credentials |-> credentials, connectionInfo |-> connectionInfo,
     channelId |-> channelId, actions |-> actions, allowedGroupIds |-> groupIds,
     whoami |-> Null]

Missing_StopsAtChannel(f) ==
    IF ~f.credentials.set THEN "Missing credentials"
    ELSE IF ~f.actions.set THEN "Missing actions"
    ELSE IF ~f.connectionInfo.set THEN "Missing connection info"
    ELSE IF ~f.channelId.set \/ f.channelId.value.num = 0 THEN "Missing channel ID"
    ELSE ""

\* the checks of build(), each `!this._x`: an unassigned field is falsy, and
\* so is the number 0; objects and arrays (the empty one too) are truthy
Missing(f) ==
    IF ~f.credentials.set THEN "Missing credentials"
    ELSE IF ~f.actions.set THEN "Missing actions"
    ELSE IF ~f.connectionInfo.set THEN "Missing connection info"
    ELSE IF ~f.channelId.set \/ f.channelId.value.num = 0 THEN "Missing channel ID"
    ELSE IF ~f.allowedGroupIds.set THEN "Missing allowed groups"
    ELSE ""

\* arguments user code passes to the setters
UsernameChoices == {Str(<<"a">>), Str(<<"b">>), Str(<<>>)}
PasswordChoices == {Str(<<"p">>), Undefined}
BotNameChoices == {Str(<<"T">>), Num(7)}
AddressChoices == {Str(<<"h">>), Str(<<>>)}
QueryPortChoices == {Num(10011), Num(0)}
ServerPortChoices == {Num(9989), Str(<<"9", "9", "8", "9">>), Num(0 - 1)}
ChannelIdChoices == {Num(ChannelId), Num(ChannelId + 1), Num(0), Str(<<"7">>)}
GroupsChoices ==
    {Undefined, Arr(<<>>), Arr(<<Num(5), Num(7)>>), Arr(<<Num(5), Num(0)>>),
     Arr(<<Str(<<"5">>)>>)}
SuccessChoices == {Fn("success"), Undefined}
NoPermsChoices == {Fn("noPerms"), Str(<<"x">>)}

----------------------------------------------------------------------------
Init ==
    /\ allowedGroupIds \in AllowedGroupChoices
    /\ whoami = Null
    /\ listening = FALSE
    /\ hs = 0
    /\ startResult = [state |-> "none", error |-> ""]
    /\ keepAlive = FALSE
    /\ pings = <<>>
    /\ sent = <<>>
    /\ replies = <<>>
    /\ event = NoEvent
    /\ nevents = 0
    /\ calls = <<>>
    /\ logged = {}
    /\ unhandled = {}
    /\ crashed = FALSE
    /\ whoamiWrites = 0
    /\ factory = EmptyFactory
    /\ session = NoSession
    /\ outcome = NoCall
    /\ ncalls = 0

\* Bot.start: attach both listeners, then _connect sends the login request
Start_TickerAtOnce ==
    /\ ~crashed
    /\ startResult.state = "none"
    /\ listening' = TRUE
    /\ hs' = 1
    /\ sent' = Send(sent, ConnectStep(1, whoami))
    /\ replies' = Append(replies, Pending)
    /\ startResult' = [state |-> "pending", error |-> ""]
    /\ keepAlive' = TRUE
    /\ UNCHANGED <<allowedGroupIds, whoami, pings, event, nevents, calls,
                   logged, unhandled, crashed>>
    /\ UNCHANGED <<whoamiWrites, factory, session, outcome, ncalls>>

Start ==
    /\ ~crashed
    /\ startResult.state = "none"
    /\ listening' = TRUE
    /\ hs' = 1
    /\ sent' = Send(sent, ConnectStep(1, whoami))
    /\ replies' = Append(replies, Pending)
    /\ startResult' = [state |-> "pending", error |-> ""]
    /\ UNCHANGED <<allowedGroupIds, whoami, keepAlive, pings, event, nevents, calls,
                   logged, unhandled, crashed>>
    /\ UNCHANGED <<whoamiWrites, factory, session, outcome, ncalls>>

\* the awaited handshake request is answered: _whoami stores the response,
\* the next .then of _connect sends the next request, and past the last
\* one start() creates the keep-alive interval
HandshakeOk ==
    /\ ~crashed
    /\ hs \in 1..HandshakeLength
    /\ startResult.state = "pending"
    /\ replies[HandshakeIndex].status = "pending"
    /\ LET i == HandshakeIndex
       IN \E id \in (IF sent[i].cmd = "whoami" THEN OwnClientIds ELSE {0}) :
            LET response == [OkReply EXCEPT !.client_id = id]
                me == IF sent[i].cmd = "whoami"
                      THEN WhoamiResponse(response.client_id) ELSE whoami
                answered == [replies EXCEPT ![i] = response]
            IN /\ whoami' = me
               /\ whoamiWrites' = IF sent[i].cmd = "whoami"
                                  THEN whoamiWrites + 1 ELSE whoamiWrites
               /\ IF hs = HandshakeLength
                  THEN /\ replies' = answered
                       /\ keepAlive' = TRUE
                       /\ startResult' = [state |-> "resolved", error |-> ""]
                       /\ UNCHANGED sent
                  ELSE IF StepThrows(hs + 1, me)
                  THEN /\ replies' = answered
                       /\ startResult' = [state |-> "rejected", error |-> "TypeError"]
                       /\ UNCHANGED <<sent, keepAlive>>
                  ELSE /\ sent' = Send(sent, ConnectStep(hs + 1, me))
                       /\ replies' = Append(answered, Pending)
                       /\ UNCHANGED <<keepAlive, startResult>>
    /\ hs' = hs + 1
    /\ UNCHANGED <<allowedGroupIds, listening, pings, event, nevents, calls, logged,
                   unhandled, crashed>>
    /\ UNCHANGED api

\* variant: the failure is swallowed and the chain goes on
HandshakeError_Continues ==
    /\ ~crashed
    /\ hs \in 1..HandshakeLength
    /\ startResult.state = "pending"
    /\ replies[HandshakeIndex].status = "pending"
    /\ LET answered == [replies EXCEPT ![HandshakeIndex] = ErrorReply]
       IN IF hs = HandshakeLength
          THEN /\ replies' = answered
               /\ keepAlive' = TRUE
               /\ startResult' = [state |-> "resolved", error |-> ""]
               /\ UNCHANGED sent
          ELSE IF StepThrows(hs + 1, whoami)
          THEN /\ replies' = answered
               /\ startResult' = [state |-> "rejected", error |-> "TypeError"]
               /\ UNCHANGED <<sent, keepAlive>>
          ELSE /\ sent' = Send(sent, ConnectStep(hs + 1, whoami))
               /\ replies' = Append(answered, Pending)
               /\ UNCHANGED <<keepAlive, startResult>>
    /\ hs' = hs + 1
    /\ UNCHANGED <<allowedGroupIds, whoami, listening, pings, event, nevents, calls,
                   logged, unhandled, crashed>>
    /\ UNCHANGED <<whoamiWrites, factory, session, outcome, ncalls>>

\* the awaited handshake request fails: every later .then is skipped and
\* the promise of start() rejects with that error
HandshakeError ==
    /\ ~crashed
    /\ hs \in 1..HandshakeLength
    /\ startResult.state = "pending"
    /\ replies[HandshakeIndex].status = "pending"
    /\ replies' = [replies EXCEPT ![HandshakeIndex] = ErrorReply]
    /\ startResult' = [state |-> "rejected", error |-> sent[HandshakeIndex].cmd]
    /\ UNCHANGED <<allowedGroupIds, whoami, listening, hs, keepAlive, pings, sent,
                   event, nevents, calls, logged, unhandled, crashed>>
    /\ UNCHANGED <<whoamiWrites, factory, session, outcome, ncalls>>

\* Bot._onClientMove: a clientmoved event reaches the listener
\* variant: a client whose query is not answered yet is not queried again
OnClientMove_Dedup ==
    /\ ~crashed
    /\ listening
    /\ Subscribed
    /\ nevents < MaxEvents
    /\ Len(sent) < MaxSent
    /\ \E ctid \in Channels, clid \in ClientIds :
        LET moveEvent == [kind |-> "clientmoved", ctid |-> ctid, clid |-> clid]
        IN /\ event' = moveEvent
           /\ nevents' = nevents + 1
           /\ IF ~MovedIntoChannel(moveEvent)
              THEN UNCHANGED <<sent, replies, crashed>>
              ELSE IF whoami.isNull
              THEN /\ crashed' = TRUE
                   /\ UNCHANGED <<sent, replies>>
              ELSE IF IsOurselves(moveEvent.clid, whoami)
              THEN UNCHANGED <<sent, replies, crashed>>
              ELSE IF \E i \in 1..Len(sent) :
                         /\ sent[i].cmd = "clientinfo"
                         /\ sent[i].params.clid = moveEvent.clid
                         /\ replies[i].status = "pending"
              THEN UNCHANGED <<sent, replies, crashed>>
              ELSE /\ sent' = Send(sent, ClientInfoRequest(moveEvent.clid))
                   /\ replies' = Append(replies, Pending)
                   /\ UNCHANGED crashed
    /\ UNCHANGED <<allowedGroupIds, whoami, listening, hs, startResult, keepAlive,
                   pings, calls, logged, unhandled>>
    /\ UNCHANGED <<whoamiWrites, factory, session, outcome, ncalls>>

OnClientMove ==
    /\ ~crashed
    /\ listening
    /\ Subscribed
    /\ nevents < MaxEvents
    /\ Len(sent) < MaxSent
    /\ \E ctid \in Channels, clid \in ClientIds :
        LET moveEvent == [kind |-> "clientmoved", ctid |-> ctid, clid |-> clid]
        IN /\ event' = moveEvent
           /\ nevents' = nevents + 1
           /\ IF ~MovedIntoChannel(moveEvent)
              THEN UNCHANGED <<sent, replies, crashed>>
              ELSE IF whoami.isNull
              THEN /\ crashed' = TRUE
                   /\ UNCHANGED <<sent, replies>>
              ELSE IF IsOurselves(moveEvent.clid, whoami)
              THEN UNCHANGED <<sent, replies, crashed>>
              ELSE /\ sent' = Send(sent, ClientInfoRequest(moveEvent.clid))
                   /\ replies' = Append(replies, Pending)
                   /\ UNCHANGED crashed
    /\ UNCHANGED <<allowedGroupIds, whoami, listening, hs, startResult, keepAlive,
                   pings, calls, logged, unhandled>>
    /\ UNCHANGED <<whoamiWrites, factory, session, outcome, ncalls>>

\* the clientinfo query of a move event is answered: _hasPermission
\* computes the result and the handler it selects runs; what the handler
\* throws is logged by the .catch
ClientInfoOk ==
    /\ ~crashed
    /\ \E i \in 1..Len(sent), groups \in ServerGroupChoices, behaviour \in HandlerBehaviours :
        /\ sent[i].cmd = "clientinfo"
        /\ replies[i].status = "pending"
        /\ behaviour = "example" => Len(sent) + 3 <= MaxSent
        /\ LET response == [OkReply EXCEPT !.client_servergroups = groups]
               allowed == HasPermissionResult(allowedGroupIds, response)
               name == HandlerName(allowed)
               clientId == sent[i].params.clid
               answered == [replies EXCEPT ![i] = response]
           IN /\ calls' = Append(calls, [name |-> name, clid |-> clientId, req |-> i])
              /\ IF behaviour = "throws"
                 THEN /\ logged' = logged \cup {[source |-> "handler", req |-> i]}
                      /\ replies' = answered
                      /\ UNCHANGED sent
                 ELSE /\ sent' = sent \o ActionRequests(name, clientId, i)
                      /\ replies' = answered \o PendingFor(ActionRequests(name, clientId, i))
                      /\ UNCHANGED logged
    /\ UNCHANGED <<allowedGroupIds, whoami, listening, hs, startResult, keepAlive,
                   pings, event, nevents, unhandled, crashed>>
    /\ UNCHANGED <<whoamiWrites, factory, session, outcome, ncalls>>

\* variant: a failed query counts as "no permission"
ClientInfoError_Denies ==
    /\ ~crashed
    /\ \E i \in 1..Len(sent) :
        /\ sent[i].cmd = "clientinfo"
        /\ replies[i].status = "pending"
        /\ replies' = [replies EXCEPT ![i] = ErrorReply]
        /\ logged' = logged \cup {[source |-> "clientinfo", req |-> i]}
        /\ calls' = Append(calls, [name |-> "noPerms", clid |-> sent[i].params.clid,
                                   req |-> i])
    /\ UNCHANGED <<allowedGroupIds, whoami, listening, hs, startResult, keepAlive,
                   pings, sent, event, nevents, unhandled, crashed>>
    /\ UNCHANGED <<whoamiWrites, factory, session, outcome, ncalls>>

\* the clientinfo query fails: the rejection skips the dispatch and the
\* .catch logs it
ClientInfoError ==
    /\ ~crashed
    /\ \E i \in 1..Len(sent) :
        /\ sent[i].cmd = "clientinfo"
        /\ replies[i].status = "pending"
        /\ replies' = [replies EXCEPT ![i] = ErrorReply]
        /\ logged' = logged \cup {[source |-> "clientinfo", req |-> i]}
    /\ UNCHANGED <<allowedGroupIds, whoami, listening, hs, startResult, keepAlive,
                   pings, sent, event, nevents, calls, unhandled, crashed>>
    /\ UNCHANGED <<whoamiWrites, factory, session, outcome, ncalls>>

\* Bot._onEnterView: a cliententerview event reaches the listener
OnEnterView ==
    /\ ~crashed
    /\ listening
    /\ Subscribed
    /\ nevents < MaxEvents
    /\ Len(sent) < MaxSent
    /\ \E ctid \in Channels, clid \in ClientIds :
        LET viewEvent == [kind |-> "cliententerview", ctid |-> ctid, clid |-> clid]
        IN /\ event' = viewEvent
           /\ nevents' = nevents + 1
           /\ IF ~EnteredChannel(viewEvent)
              THEN UNCHANGED <<sent, replies>>
              ELSE /\ sent' = Send(sent, KickClientRequest(viewEvent.clid,
                                        "Channel not allowed", "enterview", 0))
                   /\ replies' = Append(replies, Pending)
    /\ UNCHANGED <<allowedGroupIds, whoami, listening, hs, startResult, keepAlive,
                   pings, calls, logged, unhandled, crashed>>
    /\ UNCHANGED <<whoamiWrites, factory, session, outcome, ncalls>>

\* a poke, message or kick is answered: nothing waits for the result
RequestOk ==
    /\ ~crashed
    /\ \E i \in 1..Len(sent) :
        /\ sent[i].origin \in {"handler", "enterview"}
        /\ replies[i].status = "pending"
        /\ replies' = [replies EXCEPT ![i] = OkReply]
    /\ UNCHANGED <<allowedGroupIds, whoami, listening, hs, startResult, keepAlive,
                   pings, sent, event, nevents, calls, logged, unhandled, crashed>>
    /\ UNCHANGED <<whoamiWrites, factory, session, outcome, ncalls>>

\* a poke, message or kick fails: its promise rejects and no .catch is
\* attached to it, neither by the example handlers nor by _onEnterView
RequestError ==
    /\ ~crashed
    /\ \E i \in 1..Len(sent) :
        /\ sent[i].origin \in {"handler", "enterview"}
        /\ replies[i].status = "pending"
        /\ replies' = [replies EXCEPT ![i] = ErrorReply]
        /\ unhandled' = unhandled \cup {i}
    /\ UNCHANGED <<allowedGroupIds, whoami, listening, hs, startResult, keepAlive,
                   pings, sent, event, nevents, calls, logged, crashed>>
    /\ UNCHANGED <<whoamiWrites, factory, session, outcome, ncalls>>

\* the interval fires: one whoami query
\* variant: no tick while a permission query is unanswered
KeepAliveTick_WaitsForQueries ==
    /\ ~crashed
    /\ keepAlive
    /\ Len(pings) < MaxTicks
    /\ \A i \in 1..Len(sent) :
          sent[i].cmd = "clientinfo" => replies[i].status # "pending"
    /\ pings' = Append(pings, Pending)
    /\ UNCHANGED <<allowedGroupIds, whoami, listening, hs, startResult, keepAlive,
                   sent, replies, event, nevents, calls, logged, unhandled, crashed>>
    /\ UNCHANGED <<whoamiWrites, factory, session, outcome, ncalls>>

KeepAliveTick ==
    /\ ~crashed
    /\ keepAlive
    /\ Len(pings) < MaxTicks
    /\ pings' = Append(pings, Pending)
    /\ UNCHANGED <<allowedGroupIds, whoami, listening, hs, startResult, keepAlive,
                   sent, replies, event, nevents, calls, logged, unhandled, crashed>>
    /\ UNCHANGED <<whoamiWrites, factory, session, outcome, ncalls>>

\* variant: the keep-alive response is stored like the one of the handshake
KeepAliveOk_StoresResponse ==
    /\ ~crashed
    /\ \E i \in 1..Len(pings), id \in OwnClientIds :
        /\ pings[i].status = "pending"
        /\ pings' = [pings EXCEPT ![i] = [OkReply EXCEPT !.client_id = id]]
        /\ whoami' = WhoamiResponse(id)
        /\ whoamiWrites' = whoamiWrites + 1
    /\ UNCHANGED <<allowedGroupIds, listening, hs, startResult, keepAlive,
                   sent, replies, event, nevents, calls, logged, unhandled, crashed>>
    /\ UNCHANGED <<factory, session, outcome, ncalls>>

\* the keep-alive query is answered: the response is dropped
KeepAliveOk ==
    /\ ~crashed
    /\ \E i \in 1..Len(pings), id \in OwnClientIds :
        /\ pings[i].status = "pending"
        /\ pings' = [pings EXCEPT ![i] = [OkReply EXCEPT !.client_id = id]]
    /\ UNCHANGED <<allowedGroupIds, whoami, listening, hs, startResult, keepAlive,
                   sent, replies, event, nevents, calls, logged, unhandled, crashed>>
    /\ UNCHANGED <<whoamiWrites, factory, session, outcome, ncalls>>

\* variant: a failed keep-alive query ends the interval
KeepAliveError_Stops ==
    /\ ~crashed
    /\ \E i \in 1..Len(pings) :
        /\ pings[i].status = "pending"
        /\ pings' = [pings EXCEPT ![i] = ErrorReply]
        /\ logged' = logged \cup {[source |-> "keepalive", req |-> i]}
    /\ keepAlive' = FALSE
    /\ UNCHANGED <<allowedGroupIds, whoami, listening, hs, startResult,
                   sent, replies, event, nevents, calls, unhandled, crashed>>
    /\ UNCHANGED <<whoamiWrites, factory, session, outcome, ncalls>>

\* the keep-alive query fails: the .catch logs the error
KeepAliveError ==
    /\ ~crashed
    /\ \E i \in 1..Len(pings) :
        /\ pings[i].status = "pending"
        /\ pings' = [pings EXCEPT ![i] = ErrorReply]
        /\ logged' = logged \cup {[source |-> "keepalive", req |-> i]}
    /\ UNCHANGED <<allowedGroupIds, whoami, listening, hs, startResult, keepAlive,
                   sent, replies, event, nevents, calls, unhandled, crashed>>
    /\ UNCHANGED <<whoamiWrites, factory, session, outcome, ncalls>>

Next ==
    \/ Start
    \/ HandshakeOk
    \/ HandshakeError
    \/ OnClientMove
    \/ ClientInfoOk
    \/ ClientInfoError
    \/ OnEnterView
    \/ RequestOk
    \/ RequestError
    \/ KeepAliveTick
    \/ KeepAliveOk
    \/ KeepAliveError

Spec == Init /\ [][Next]_vars

\* the transport answers the handshake request that start() is waiting for:
\* while an answer is awaited, one arrives
SpecLive == Init /\ [][Next]_vars /\ WF_vars(HandshakeOk)

----------------------------------------------------------------------------
(* The Factory: setters called in any order with any arguments, and build() *)

\* what the Bot and the transport hold
bot == <<allowedGroupIds, whoami, listening, hs, startResult, keepAlive,
         sent, replies, pings, event, nevents, calls, logged, unhandled, crashed,
         whoamiWrites>>

\* a setter: the validations run, then the slice is assigned
Setter(name, slice, args, error, value) ==
    /\ ncalls < MaxCalls
    /\ ncalls' = ncalls + 1
    /\ outcome' = Call(name, args, error)
    /\ factory' = IF error = "" THEN [factory EXCEPT ![slice] = Stored(value)]
                  ELSE factory
    /\ UNCHANGED session
    /\ UNCHANGED bot

WithCredentials ==
    \E username \in UsernameChoices, password \in PasswordChoices,
       botName \in BotNameChoices :
        Setter("withCredentials", "credentials", <<username, password, botName>>,
               FirstError(<<validateString(username, "Invalid username"),
                            validateString(password, "Invalid password"),
                            validateString(botName, "Invalid bot name")>>),
               [username |-> username, password |-> password, botName |-> botName])

WithActions ==
    \E success \in SuccessChoices, noPerms \in NoPermsChoices :
        Setter("withActions", "actions", <<success, noPerms>>,
               FirstError(<<validateFunction(success, "Invalid success function"),
                            validateFunction(noPerms, "Invalid noPerms function")>>),
               [success |-> success, noPerms |-> noPerms])

WithConnectionInfo ==
    \E address \in AddressChoices, queryPort \in QueryPortChoices,
       serverPort \in ServerPortChoices :
        Setter("withConnectionInfo", "connectionInfo", <<address, queryPort, serverPort>>,
               FirstError(<<validateString(address, "Invalid address"),
                            validatePositiveInteger(queryPort, "Invalid query port"),
                            validatePositiveInteger(serverPort, "Invalid server port")>>),
               [address |-> address, queryPort |-> queryPort, serverPort |-> serverPort])

InChannel ==
    \E channelId \in ChannelIdChoices :
        Setter("inChannel", "channelId", <<channelId>>,
               validatePositiveInteger(channelId, "Invalid channel id"),
               channelId)

\* groups = [] when the argument is undefined
WithAllowedGroups ==
    \E arg \in GroupsChoices :
        LET groups == IF arg.type = "undefined" THEN <<>> ELSE arg.items
        IN Setter("withAllowedGroups", "allowedGroupIds", <<arg>>,
                  ValidateGroups(groups), groups)

Build ==
    /\ ncalls < MaxCalls
    /\ ncalls' = ncalls + 1
    /\ LET error == Missing(factory)
       IN /\ outcome' = Call("build", <<>>, error)
          /\ session' = IF error = ""
                        THEN NewBot(factory.credentials.value,
                                    factory.connectionInfo.value,
                                    factory.channelId.value,
                                    factory.actions.value,
                                    factory.allowedGroupIds.value)
                        ELSE session
    /\ UNCHANGED factory
    /\ UNCHANGED bot

NextFactory ==
    \/ WithCredentials
    \/ WithActions
    \/ WithConnectionInfo
    \/ InChannel
    \/ WithAllowedGroups
    \/ Build

SpecFactory == Init /\ [][NextFactory]_vars

----------------------------------------------------------------------------
(* joinChannel called by user code, at any moment of the handshake *)

\* arguments user code passes; an omitted argument is undefined
ClidArgs == {Undefined, Num(2)}
PasswordArgs == {Undefined, Str(<<>>), Str(<<"p", "w">>)}

\* Bot.joinChannel(cid, clid = this.whoami.client_id, password): the default
\* of clid is evaluated when clid is undefined, and reading client_id of null
\* throws before anything is sent
JoinChannel ==
    /\ ~crashed
    /\ ncalls < MaxJoins
    /\ ncalls' = ncalls + 1
    /\ \E cid \in Channels, clidArg \in ClidArgs, password \in PasswordArgs :
         LET throws == clidArg.type = "undefined" /\ whoami.isNull
             clid == IF clidArg.type = "undefined" THEN whoami.client_id ELSE clidArg.num
         IN /\ outcome' = Call("joinChannel", <<Num(cid), clidArg, password>>,
                               IF throws THEN "TypeError" ELSE "")
            /\ IF throws
               THEN UNCHANGED <<sent, replies>>
               ELSE /\ sent' = Send(sent, JoinChannelRequest(cid, clid, password, "api"))
                    /\ replies' = Append(replies, Pending)
    /\ UNCHANGED <<allowedGroupIds, whoami, listening, hs, startResult, keepAlive,
                   pings, event, nevents, calls, logged, unhandled, crashed,
                   whoamiWrites, factory, session>>

NextJoin ==
    \/ Start
    \/ HandshakeOk
    \/ JoinChannel

SpecJoin == Init /\ [][NextJoin]_vars

----------------------------------------------------------------------------
(* Properties *)

\* the group identifiers a clientinfo response reports, read as numbers
DigitValue(c) == CHOOSE d \in 0..9 : DigitChars[d + 1] = c

RECURSIVE ParseInt(_)
ParseInt(str) ==
    IF Len(str) = 0 THEN 0
    ELSE 10 * ParseInt(SubSeq(str, 1, Len(str) - 1)) + DigitValue(str[Len(str)])

ReportedGroups(value) ==
    IF value.type = "number" THEN {value.num}
    ELSE LET pieces == Split(value.str)
         IN {ParseInt(pieces[j].str) : j \in {k \in 1..Len(pieces) : Len(pieces[k].str) > 0}}

AllowedGroups == {allowedGroupIds[j].num : j \in 1..Len(allowedGroupIds)}

ClientInfoQueries == {i \in 1..Len(sent) : sent[i].cmd = "clientinfo"}
CallsFor(i) == {k \in 1..Len(calls) : calls[k].req = i}

\* C1: with a non-empty allowed-groups set, the permission result (and so
\* the handler picked) is true exactly when one of the groups the client
\* reports equals an allowed group.
C1_PermissionIffGroupAllowed ==
    Len(allowedGroupIds) > 0 =>
        \A k \in 1..Len(calls) :
            (calls[k].name = "success") <=>
                (ReportedGroups(replies[calls[k].req].client_servergroups)
                    \cap AllowedGroups # {})

\* C2: with an empty allowed-groups set, every answered permission query
\* has led to the success handler for the queried client, whatever groups
\* the answer reports, and the denied handler has never run.
C2_EmptyAllowedAlwaysSuccess ==
    Len(allowedGroupIds) = 0 =>
        /\ \A i \in ClientInfoQueries :
            replies[i].status = "ok" =>
                \E k \in 1..Len(calls) :
                    calls[k] = [name |-> "success", clid |-> sent[i].params.clid, req |-> i]
        /\ \A k \in 1..Len(calls) : calls[k].name # "noPerms"

C2_Witness ==
    /\ Len(allowedGroupIds) = 0
    /\ \E k \in 1..Len(calls) :
        /\ calls[k].name = "success"
        /\ replies[calls[k].req].client_servergroups = Str(<<>>)

\* C3: a move event to another channel, or of the bot itself, sends nothing
\* and runs no handler; a clientinfo query is only ever sent by a move event
\* into the configured channel of a client other than the bot, for that
\* client; a handler only ever runs for such a query.
C3_OnlyQualifyingMovesTrigger ==
    [][/\ ( /\ nevents' # nevents
            /\ event'.kind = "clientmoved"
            /\ (event'.ctid # ChannelId \/ event'.clid = whoami.client_id) )
          => (sent' = sent /\ calls' = calls)
       /\ \A j \in (Len(sent) + 1)..Len(sent') :
            sent'[j].cmd = "clientinfo" =>
                /\ nevents' = nevents + 1
                /\ event'.kind = "clientmoved"
                /\ event'.ctid = ChannelId
                /\ ~whoami.isNull
                /\ event'.clid # whoami.client_id
                /\ sent'[j].params.clid = event'.clid
       /\ \A k \in (Len(calls) + 1)..Len(calls') :
            calls'[k].req \in ClientInfoQueries
      ]_vars

C3_Witness ==
    /\ event.kind = "clientmoved"
    /\ event.ctid = ChannelId
    /\ event.clid = whoami.client_id
    /\ nevents = 1
    /\ Len(sent) = 6

\* C4: a permission query that got a response has exactly one handler
\* invocation, for the queried client: success when the permission result
\* is true, denied when it is false; a query without a response has none.
C4_ExactlyOneHandlerPerResponse ==
    /\ \A i \in ClientInfoQueries :
        IF replies[i].status = "ok"
        THEN /\ Cardinality(CallsFor(i)) = 1
             /\ \A k \in CallsFor(i) :
                 /\ calls[k].clid = sent[i].params.clid
                 /\ calls[k].name =
                       (IF HasPermissionResult(allowedGroupIds, replies[i])
                        THEN "success" ELSE "noPerms")
        ELSE CallsFor(i) = {}
    /\ \A k \in 1..Len(calls) : calls[k].req \in ClientInfoQueries

C4_Witness ==
    /\ Len(calls) = 2
    /\ calls[1].name = "noPerms"
    /\ calls[2].name = "noPerms"
    /\ calls[1].req > calls[2].req
    /\ calls[1].clid # calls[2].clid

\* C5: an enter-view event into the configured channel sends exactly one
\* request, a clientkick of the event's client with reason message
\* 'Channel not allowed', and runs no handler; an enter-view event for
\* another channel sends nothing.
C5_EnterViewAlwaysKicks ==
    [][(nevents' # nevents /\ event'.kind = "cliententerview") =>
         /\ calls' = calls
         /\ IF event'.ctid = ChannelId
            THEN /\ Len(sent') = Len(sent) + 1
                 /\ SubSeq(sent', 1, Len(sent)) = sent
                 /\ sent'[Len(sent')].cmd = "clientkick"
                 /\ sent'[Len(sent')].params =
                       [clid |-> event'.clid, reasonid |-> 4,
                        reasonmsg |-> "Channel not allowed"]
            ELSE sent' = sent
      ]_vars

C5_Witness ==
    /\ event.kind = "cliententerview"
    /\ event.ctid = ChannelId
    /\ Len(allowedGroupIds) > 0
    /\ sent[Len(sent)].cmd = "clientkick"
    /\ sent[Len(sent)].origin = "enterview"
    /\ sent[Len(sent)].params.clid = event.clid

HandshakeRequests == {i \in 1..Len(sent) : sent[i].origin = "handshake"}

\* C6: a permission query that failed has no handler invocation, neither
\* success nor denied; the failure is logged.
C6_FailedQueryRunsNoHandler ==
    \A i \in ClientInfoQueries :
        replies[i].status = "error" =>
            /\ CallsFor(i) = {}
            /\ [source |-> "clientinfo", req |-> i] \in logged

C6_Witness ==
    \E i \in ClientInfoQueries :
        /\ replies[i].status = "error"
        /\ \E j \in ClientInfoQueries : j # i /\ replies[j].status = "ok"

\* C7: the handshake requests are sent in the order login, use,
\* clientupdate, whoami, clientmove, servernotifyregister; a handshake
\* request is sent only when every earlier one has been answered
\* successfully; the clientmove moves the stored own identity into the
\* configured channel.
C7_HandshakeSequential ==
    LET order == <<"login", "use", "clientupdate", "whoami", "clientmove",
                   "servernotifyregister">>
        H == SelectSeq(sent, LAMBDA r : r.origin = "handshake")
    IN /\ Len(H) <= 6
       /\ \A k \in 1..Len(H) : H[k].cmd = order[k]
       /\ \A i \in HandshakeRequests, j \in HandshakeRequests :
            i < j => replies[i].status = "ok"
       /\ \A i \in HandshakeRequests :
            sent[i].cmd = "clientmove" =>
                /\ ~whoami.isNull
                /\ sent[i].params = [cid |-> Num(ChannelId), clid |-> Num(whoami.client_id)]

C7_Witness ==
    /\ Cardinality(HandshakeRequests) = 6
    /\ \A i \in HandshakeRequests : replies[i].status = "ok"
    /\ ~whoami.isNull

\* C8: once a handshake request has failed, start() has failed with that
\* request's error, the request was sent once, no later handshake request
\* exists, and the keep-alive has neither been started nor ticked.
C8_HandshakeFailureIsFatal ==
    \A i \in HandshakeRequests :
        replies[i].status = "error" =>
            /\ startResult = [state |-> "rejected", error |-> sent[i].cmd]
            /\ \A j \in HandshakeRequests : j <= i /\ (j # i => sent[j].cmd # sent[i].cmd)
            /\ ~keepAlive
            /\ pings = <<>>

C8_Witness ==
    \E i \in HandshakeRequests :
        /\ replies[i].status = "error"
        /\ sent[i].cmd = "whoami"
        /\ whoami.isNull

\* C9: no error raised while an event is processed escapes: every failed
\* request and every handler exception is caught and logged.
C9_NoErrorEscapes ==
    /\ unhandled = {}
    /\ ~crashed

ErrorSeen ==
    \E l \in logged : l.source \in {"handler", "keepalive"}

C14_TickerOnlyAfterRegisterOk ==
    (keepAlive \/ pings # <<>>) =>
        /\ Subscribed
        /\ startResult.state = "resolved"
        /\ Cardinality(HandshakeRequests) = HandshakeLength
        /\ \A i \in HandshakeRequests : replies[i].status = "ok"

\* a first tick has been issued and is not answered yet
C14_Witness ==
    /\ keepAlive
    /\ Len(pings) = 1
    /\ pings[1].status = "pending"
    /\ Subscribed

\* the whoami request of the handshake
WhoamiRequests == {i \in HandshakeRequests : sent[i].cmd = "whoami"}

\* C15: Bot.whoami is assigned exactly once, by the step that receives the
\* response of the whoami request of the handshake, and to that response; no
\* other step assigns or changes it, the responses of the keep-alive whoami
\* queries included.
C15_IdentityWrittenOnce ==
    [][/\ whoamiWrites' # whoamiWrites =>
            /\ whoamiWrites = 0
            /\ whoamiWrites' = 1
            /\ whoami.isNull
            /\ \E i \in WhoamiRequests :
                  /\ replies[i].status = "pending"
                  /\ replies'[i].status = "ok"
                  /\ whoami' = WhoamiResponse(replies'[i].client_id)
       /\ whoami' # whoami => whoamiWrites' # whoamiWrites
       /\ \A i \in WhoamiRequests : replies'[i].status = "ok" => whoamiWrites' = 1
       /\ pings' # pings => whoami' = whoami /\ whoamiWrites' = whoamiWrites
      ]_vars

\* a keep-alive whoami query has been answered after the identity was stored
C15_Witness ==
    /\ whoamiWrites = 1
    /\ ~whoami.isNull
    /\ \E k \in 1..Len(pings) :
          pings[k].status = "ok" /\ pings[k].client_id = whoami.client_id

\* the permission queries for a client that are not answered yet
PendingQueriesFor(clid) ==
    {i \in ClientInfoQueries : sent[i].params.clid = clid /\ replies[i].status = "pending"}

\* a step that delivers a move event of another client into the channel
QualifyingMove ==
    /\ nevents' = nevents + 1
    /\ event'.kind = "clientmoved"
    /\ event'.ctid = ChannelId
    /\ ~whoami.isNull
    /\ event'.clid # whoami.client_id

\* C16: move events are not de-duplicated: a qualifying move of a client whose
\* earlier query is still unanswered sends a query of its own, and each
\* response that arrives invokes the handler once more at that moment, so two
\* answered queries of one client give two invocations, in the order in which
\* the responses arrived.
C16_NoDeduplication ==
    [][/\ (QualifyingMove /\ PendingQueriesFor(event'.clid) # {}) =>
            /\ sent' = Append(sent, ClientInfoRequest(event'.clid))
            /\ replies' = Append(replies, Pending)
       /\ \A i \in ClientInfoQueries :
            (replies[i].status = "pending" /\ replies'[i].status = "ok") =>
                /\ Len(calls') = Len(calls) + 1
                /\ SubSeq(calls', 1, Len(calls)) = calls
                /\ calls'[Len(calls')].req = i
                /\ calls'[Len(calls')].clid = sent[i].params.clid
      ]_vars

\* two queries of one client, the second sent while the first was unanswered
\* and answered before it: two invocations, the second query's first
C16_Witness ==
    \E i, j \in ClientInfoQueries :
        /\ i < j
        /\ sent[i].params.clid = sent[j].params.clid
        /\ replies[i].status = "ok"
        /\ replies[j].status = "ok"
        /\ Len(calls) = 2
        /\ calls[1].req = j
        /\ calls[2].req = i

\* the permission queries not answered yet
Stalled == {i \in ClientInfoQueries : replies[i].status = "pending"}

\* C17: a permission query that is not answered holds back its own dispatch
\* only: no handler has run for it, while a qualifying move of another client
\* still sends that client's query, any other unanswered query can still be
\* answered and then invokes its handler, and the keep-alive interval is
\* alive and its next tick can fire.
C17_StalledQueryBlocksOnlyItself ==
    [][\A i \in Stalled :
          /\ CallsFor(i) = {}
          /\ (QualifyingMove /\ event'.clid # sent[i].params.clid) =>
                /\ sent' = Append(sent, ClientInfoRequest(event'.clid))
                /\ replies'[i].status = "pending"
          /\ \A j \in Stalled \ {i} :
                /\ ENABLED (ClientInfoOk /\ replies'[j].status = "ok"
                                         /\ replies'[i].status = "pending")
                /\ (replies'[j].status = "ok" /\ replies'[i].status = "pending") =>
                      /\ Len(calls') = Len(calls) + 1
                      /\ calls'[Len(calls')].req = j
                      /\ calls'[Len(calls')].clid = sent[j].params.clid
          /\ keepAlive
          /\ Len(pings) < MaxTicks => ENABLED KeepAliveTick
      ]_vars

\* a query is unanswered while a later query, of another client, has been
\* answered and dispatched, and a keep-alive query has been sent and answered
C17_Witness ==
    \E i, j \in ClientInfoQueries :
        /\ i < j
        /\ sent[i].params.clid # sent[j].params.clid
        /\ replies[i].status = "pending"
        /\ replies[j].status = "ok"
        /\ CallsFor(i) = {}
        /\ CallsFor(j) # {}
        /\ pings # <<>>
        /\ pings[1].status = "ok"

\* the promise of start() is settled, or a handshake request failed
Running == startResult.state = "resolved" /\ keepAlive
HandshakeFailed == \E i \in HandshakeRequests : replies[i].status = "error"

\* C18: once start() is called, and unless the transport answers one of the
\* six handshake requests with an error, the session reaches Running: the
\* promise of start() is resolved and the keep-alive interval exists; the
\* promise is settled once, it never changes afterwards.
C18_StartCompletes ==
    /\ (startResult.state = "pending") ~> (Running \/ HandshakeFailed)
    /\ [][startResult.state \in {"resolved", "rejected"} =>
             startResult' = startResult /\ keepAlive' = keepAlive]_vars

\* the six requests were answered successfully and start() has completed,
\* before any event or tick
C18_Witness ==
    /\ Running
    /\ Cardinality(HandshakeRequests) = HandshakeLength
    /\ \A i \in HandshakeRequests : replies[i].status = "ok"
    /\ Len(sent) = HandshakeLength
    /\ pings = <<>>
    /\ nevents = 0

\* C19: the listeners are attached before the first handshake request is
\* sent, yet every move event into the configured channel that the listener
\* handles finds Bot.whoami assigned: the comparison of the event's clid with
\* whoami.client_id never reads null, and no exception leaves the listener.
C19_IdentityKnownWhenCompared ==
    [][/\ sent' # <<>> => listening'
       /\ ( /\ nevents' = nevents + 1
            /\ event'.kind = "clientmoved"
            /\ event'.ctid = ChannelId )
          => /\ listening
             /\ ~whoami.isNull
             /\ whoamiWrites = 1
             /\ ~crashed'
      ]_vars

\* the bot's own move into the channel was delivered and compared equal to
\* the stored identity: no query was sent for it
C19_Witness ==
    /\ event.kind = "clientmoved"
    /\ event.ctid = ChannelId
    /\ ~whoami.isNull
    /\ event.clid = whoami.client_id
    /\ nevents = 1
    /\ Len(sent) = HandshakeLength
    /\ ~crashed

----------------------------------------------------------------------------
(* Properties of the Factory *)

SetterCalls ==
    {"withCredentials", "withActions", "withConnectionInfo", "inChannel",
     "withAllowedGroups"}

\* the slice a setter assigns and the value it builds from its arguments
SliceOf(call) ==
    CASE call = "withCredentials" -> "credentials"
      [] call = "withActions" -> "actions"
      [] call = "withConnectionInfo" -> "connectionInfo"
      [] call = "inChannel" -> "channelId"
      [] call = "withAllowedGroups" -> "allowedGroupIds"

ValueOf(call, args) ==
    CASE call = "withCredentials" ->
            [username |-> args[1], password |-> args[2], botName |-> args[3]]
      [] call = "withActions" -> [success |-> args[1], noPerms |-> args[2]]
      [] call = "withConnectionInfo" ->
            [address |-> args[1], queryPort |-> args[2], serverPort |-> args[3]]
      [] call = "inChannel" -> args[1]
      [] call = "withAllowedGroups" ->
            IF args[1].type = "array" THEN args[1].items ELSE <<>>

AllSlicesSet(f) == \A k \in DOMAIN f : f[k].set

\* a step that is a call of the Factory
FactoryCall(name) == ncalls' = ncalls + 1 /\ outcome'.call = name

\* C11: build() returns a Bot exactly when each of the five slices has been
\* assigned (a slice is assigned only by a setter that returned, to the value
\* made of that call's arguments); the Bot then holds the five values stored
\* last; when a slice was never assigned, build() throws and constructs no Bot.
C11_BuildNeedsAllFiveSlices ==
    [][/\ \A name \in SetterCalls :
            FactoryCall(name) =>
                /\ \A k \in DOMAIN factory :
                       k # SliceOf(name) => factory'[k] = factory[k]
                /\ outcome'.ok =>
                       factory'[SliceOf(name)] = Stored(ValueOf(name, outcome'.args))
                /\ factory'[SliceOf(name)].set =>
                       outcome'.ok \/ factory[SliceOf(name)].set
       /\ FactoryCall("build") =>
            /\ outcome'.ok <=> AllSlicesSet(factory)
            /\ factory' = factory
            /\ outcome'.ok =>
                  /\ session'.built
                  /\ session'.credentials = factory.credentials.value
                  /\ session'.connectionInfo = factory.connectionInfo.value
                  /\ session'.channelId = factory.channelId.value
                  /\ session'.actions = factory.actions.value
                  /\ session'.allowedGroupIds = factory.allowedGroupIds.value
            /\ ~outcome'.ok => session' = session
      ]_vars

\* build() has returned a Bot holding the values of the setters
C11_Witness ==
    /\ outcome.call = "build"
    /\ outcome.ok
    /\ session.built
    /\ session.credentials.username = Str(<<"b">>)
    /\ session.channelId = Num(ChannelId + 1)
    /\ session.allowedGroupIds = <<Num(5), Num(7)>>
    /\ session.connectionInfo.serverPort = Num(9989)
    /\ isFunction(session.actions.noPerms)

\* what the interface asks of the arguments
NonEmptyString(v) == v.type = "string" /\ v.str # <<>>
PositiveInteger(v) == v.type = "number" /\ v.num >= 1
ListOfPositiveIntegers(v) ==
    v.type = "array" /\ \A k \in 1..Len(v.items) : PositiveInteger(v.items[k])

ValidArgs(call, args) ==
    CASE call = "withCredentials" -> \A k \in 1..3 : NonEmptyString(args[k])
      [] call = "withActions" -> \A k \in 1..2 : args[k].type = "function"
      [] call = "withConnectionInfo" ->
            NonEmptyString(args[1]) /\ PositiveInteger(args[2]) /\ PositiveInteger(args[3])
      [] call = "inChannel" -> PositiveInteger(args[1])
      [] call = "withAllowedGroups" ->
            args[1].type = "undefined" \/ ListOfPositiveIntegers(args[1])

----------------------------------------------------------------------------
(* Properties of joinChannel *)

\* C13: the clientmove payload of joinChannel has a password field exactly
\* when a password argument was passed: without one it holds cid and clid
\* only (so does the join of the handshake), and with the empty string it
\* holds a password field whose value is the empty string.
C13_PasswordFieldIffSupplied ==
    [][/\ (ncalls' = ncalls + 1 /\ outcome'.call = "joinChannel" /\ outcome'.ok) =>
            LET req == sent'[Len(sent')]
                password == outcome'.args[3]
            IN /\ Len(sent') = Len(sent) + 1
               /\ req.cmd = "clientmove"
               /\ req.params.cid = outcome'.args[1]
               /\ ("password" \in DOMAIN req.params) <=> password.type # "undefined"
               /\ password.type = "undefined" => DOMAIN req.params = {"cid", "clid"}
               /\ password.type # "undefined" =>
                      /\ DOMAIN req.params = {"cid", "clid", "password"}
                      /\ req.params.password = password
       /\ \A i \in 1..Len(sent') :
            (sent'[i].cmd = "clientmove" /\ sent'[i].origin = "handshake") =>
                DOMAIN sent'[i].params = {"cid", "clid"}
      ]_vars

\* joinChannel was called with the empty string as password, and with clid
\* left to its default
C13_Witness ==
    /\ outcome.call = "joinChannel"
    /\ outcome.ok
    /\ outcome.args[2] = Undefined
    /\ outcome.args[3] = Str(<<>>)
    /\ sent # <<>>
    /\ sent[Len(sent)].origin = "api"
    /\ sent[Len(sent)].params.clid = Num(whoami.client_id)
    /\ sent[Len(sent)].params.password = Str(<<>>)

=============================================================================
